---- MODULE Spec2Model ----
(***************************************************************************)
(* A model of the typed property registry of src/main.cpp: the per-type    *)
(* descriptors (PropertyTraits<T>, ParameterTraits<T>), the type-erased    *)
(* handler table kPropertyTable and the in-RAM PropertyStore.              *)
(*                                                                         *)
(* Representation choices.                                                 *)
(*  - A float is its IEEE-754 binary32 decomposition [s, e, f] (sign,      *)
(*    biased exponent, 23-bit fraction); an int16_t is an integer in       *)
(*    -32768..32767.  Objects are copied as little-endian byte sequences.  *)
(*  - A C string is a sequence of one-character strings; NullPtr stands    *)
(*    for a null `const char*`.  Texts are drawn over the characters       *)
(*    0-9 + - . space and the letter z, on which strtol/strtof are         *)
(*    modelled exactly (no exponent, hex, inf or nan spellings occur).     *)
(***************************************************************************)
EXTENDS Integers, Sequences, FiniteSets, TLC

VARIABLES slots, call, ret, out, written

vars == <<slots, call, ret, out, written>>

----------------------------------------------------------------------------
(* Bounds of the model *)

\* longest text generated over Alphabet for the descriptor-level checks
MaxLen == 3
\* largest destination capacity handed to getAsText
MaxCap == 7
\* largest byte count handed to setRaw / getRaw
MaxRawSize == 5

----------------------------------------------------------------------------
(* Arithmetic helpers *)

RECURSIVE Pow2(_)
Pow2(n) == IF n = 0 THEN 1 ELSE 2 * Pow2(n - 1)

RECURSIVE Pow10(_)
Pow10(n) == IF n = 0 THEN 1 ELSE 10 * Pow10(n - 1)

RECURSIVE Log2Floor(_)
Log2Floor(n) == IF n < 2 THEN 0 ELSE 1 + Log2Floor(n \div 2)

Min(a, b) == IF a < b THEN a ELSE b

----------------------------------------------------------------------------
(* Object representations: float and int16_t *)

Float(s, e, f) == [s |-> s, e |-> e, f |-> f]

IsNaN(x) == x.e = 255 /\ x.f # 0
IsInf(x) == x.e = 255 /\ x.f = 0

\* total order key of a non-NaN float (-0.0 and +0.0 share key 0)
FloatKey(x) == LET mag == x.e * 8388608 + x.f
               IN  IF x.s = 1 THEN 0 - mag ELSE mag

\* a <= b, a >= b on floats; every comparison with a NaN is false
FloatLE(a, b) == ~IsNaN(a) /\ ~IsNaN(b) /\ FloatKey(a) <= FloatKey(b)
FloatGE(a, b) == ~IsNaN(a) /\ ~IsNaN(b) /\ FloatKey(a) >= FloatKey(b)

\* little-endian object bytes of a float / an int16_t, and back
FloatBytes(x) == << x.f % 256,
                    (x.f \div 256) % 256,
                    (x.e % 2) * 128 + (x.f \div 65536),
                    x.s * 128 + (x.e \div 2) >>

BytesFloat(b) == Float(b[4] \div 128,
                       (b[4] % 128) * 2 + (b[3] \div 128),
                       (b[3] % 128) * 65536 + b[2] * 256 + b[1])

Int16Bytes(n) == LET u == n % 65536 IN << u % 256, u \div 256 >>

BytesInt16(b) == LET u == b[2] * 256 + b[1]
                 IN  IF u >= 32768 THEN u - 65536 ELSE u

\* static_cast<int16_t>(long): reduction modulo 2^16 into -32768..32767
CastInt16(v) == LET u == v % 65536
                IN  IF u >= 32768 THEN u - 65536 ELSE u

\* float literals of the source
F_m50  == Float(1, 132, 4718592)   \* -50.0f
F_150  == Float(0, 134, 1441792)   \* 150.0f
F_0    == Float(0, 0, 0)           \*   0.0f
F_100  == Float(0, 133, 4718592)   \* 100.0f
F_23   == Float(0, 131, 3670016)   \*  23.0f
F_37_5 == Float(0, 132, 1441792)   \*  37.5f
F_80   == Float(0, 133, 2097152)   \*  80.0f
F_m1234 == Float(1, 137, 1720320)  \* -1234.0f

----------------------------------------------------------------------------
(* C strings and the libc conversions used by the descriptors *)

NullPtr == <<"nullptr">>

Digits == <<"0", "1", "2", "3", "4", "5", "6", "7", "8", "9">>

IsDigit(c) == \E d \in 1..10 : Digits[d] = c
DigitVal(c) == (CHOOSE d \in 1..10 : Digits[d] = c) - 1

\* first index >= i of `in` that holds no space (isspace on the model's alphabet)
RECURSIVE SkipSpace(_, _)
SkipSpace(in, i) == IF i <= Len(in) /\ in[i] = " " THEN SkipSpace(in, i + 1) ELSE i

\* first index >= i of `in` that holds no decimal digit
RECURSIVE SkipDigits(_, _)
SkipDigits(in, i) == IF i <= Len(in) /\ IsDigit(in[i]) THEN SkipDigits(in, i + 1) ELSE i

\* value of the decimal digits in[i..j] (0 for an empty range)
RECURSIVE DigitsVal(_, _, _)
DigitsVal(in, i, j) == IF j < i THEN 0
                       ELSE 10 * DigitsVal(in, i, j - 1) + DigitVal(in[j])

\* std::strtol(in, &end, 10): end is the count of characters consumed
\* (end = 0 is `end == in`), v the long value
Strtol(in) ==
    LET i0  == SkipSpace(in, 1)
        sgn == i0 <= Len(in) /\ in[i0] \in {"+", "-"}
        neg == sgn /\ in[i0] = "-"
        i1  == IF sgn THEN i0 + 1 ELSE i0
        i2  == SkipDigits(in, i1)
        mag == DigitsVal(in, i1, i2 - 1)
    IN  IF i2 = i1 THEN [end |-> 0, v |-> 0]
        ELSE [end |-> i2 - 1, v |-> IF neg THEN 0 - mag ELSE mag]

\* the first k binary digits of r/d after the point, and what is left:
\* r * 2^k = q * d + rem
RECURSIVE FracBits(_, _, _)
FracBits(r, d, k) ==
    IF k = 0 THEN [q |-> 0, r |-> r]
    ELSE LET p == FracBits(r, d, k - 1)
             b == IF 2 * p.r >= d THEN 1 ELSE 0
         IN  [q |-> 2 * p.q + b, r |-> 2 * p.r - b * d]

\* for 0 < r < d: the k >= 1 with 2^-k <= r/d < 2^-(k-1)
RECURSIVE LeadShift(_, _)
LeadShift(r, d) == IF 2 * r >= d THEN 1 ELSE 1 + LeadShift(2 * r, d)

\* the float nearest to (-1)^s * (i + r/d), ties to even (0 <= r < d, i < 2^24)
DecimalToFloat(s, i, r, d) ==
    IF i = 0 /\ r = 0 THEN Float(s, 0, 0)
    ELSE LET E  == IF i > 0 THEN Log2Floor(i) ELSE 0 - LeadShift(r, d)
             k  == 23 - E
             fb == FracBits(r, d, k)
             m0 == IF i = 0 THEN fb.q ELSE i * Pow2(k) + fb.q
             up == 2 * fb.r > d \/ (2 * fb.r = d /\ m0 % 2 = 1)
             m  == IF up THEN m0 + 1 ELSE m0
         IN  IF m = 16777216 THEN Float(s, E + 128, 0)
             ELSE Float(s, E + 127, m - 8388608)

\* std::strtof(in, &end): decimal form [sign] digits [. digits]
Strtof(in) ==
    LET i0   == SkipSpace(in, 1)
        sgn  == i0 <= Len(in) /\ in[i0] \in {"+", "-"}
        neg  == sgn /\ in[i0] = "-"
        i1   == IF sgn THEN i0 + 1 ELSE i0
        i2   == SkipDigits(in, i1)
        dot  == i2 <= Len(in) /\ in[i2] = "."
        i3   == IF dot THEN SkipDigits(in, i2 + 1) ELSE i2
        nInt == i2 - i1
        nFrc == IF dot THEN i3 - i2 - 1 ELSE 0
    IN  IF nInt + nFrc = 0 THEN [end |-> 0, v |-> F_0]
        ELSE [end |-> i3 - 1,
              v   |-> DecimalToFloat(IF neg THEN 1 ELSE 0,
                                     DigitsVal(in, i1, i2 - 1),
                                     DigitsVal(in, i2 + 1, i3 - 1),
                                     Pow10(nFrc))]

\* decimal digits of n >= 0
RECURSIVE Utoa(_)
Utoa(n) == IF n < 10 THEN <<Digits[n + 1]>>
           ELSE Utoa(n \div 10) \o <<Digits[(n % 10) + 1]>>

\* the text "%d" renders
FormatD(n) == IF n < 0 THEN <<"-">> \o Utoa(0 - n) ELSE Utoa(n)

\* |x| * 100 rounded to an integer, ties to even (x finite, |x| < 2^24)
Hundredths(x) ==
    LET m == IF x.e = 0 THEN x.f ELSE 8388608 + x.f
        E == IF x.e = 0 THEN 0 - 126 ELSE x.e - 127
        k == 23 - E
        n == m * 100
    IN  IF k <= 0 THEN n * Pow2(0 - k)
        ELSE IF k >= 32 THEN 0
        ELSE IF k = 31 THEN (IF n > 1073741824 THEN 1 ELSE 0)
        ELSE LET p    == Pow2(k)
                 q    == n \div p
                 r    == n % p
                 half == Pow2(k - 1)
             IN  IF r > half \/ (r = half /\ q % 2 = 1) THEN q + 1 ELSE q

\* FormatF2 with the hundredths cut off instead of rounded
FormatF2_Truncating(x) ==
    LET sign == IF x.s = 1 THEN <<"-">> ELSE <<>>
        m    == IF x.e = 0 THEN x.f ELSE 8388608 + x.f
        k    == 150 - (IF x.e = 0 THEN 1 ELSE x.e)
        h    == IF k <= 0 THEN m * 100 * Pow2(0 - k)
                ELSE IF k >= 31 THEN 0
                ELSE (m * 100) \div Pow2(k)
    IN  IF IsNaN(x) THEN sign \o <<"n", "a", "n">>
        ELSE IF IsInf(x) THEN sign \o <<"i", "n", "f">>
        ELSE sign \o Utoa(h \div 100) \o <<".">>
                  \o <<Digits[((h \div 10) % 10) + 1], Digits[(h % 10) + 1]>>

\* the text "%.2f" renders
FormatF2(x) ==
    LET sign == IF x.s = 1 THEN <<"-">> ELSE <<>>
    IN  IF IsNaN(x) THEN sign \o <<"n", "a", "n">>
        ELSE IF IsInf(x) THEN sign \o <<"i", "n", "f">>
        ELSE LET h == Hundredths(x)
             IN  sign \o Utoa(h \div 100) \o <<".">>
                      \o <<Digits[((h \div 10) % 10) + 1], Digits[(h % 10) + 1]>>

\* Snprintf answering -1 when the text and its terminator do not fit
Snprintf_NegativeOnTruncation(text, n) ==
    IF Len(text) + 1 > n
    THEN [ret |-> -1, str |-> IF n = 0 THEN <<>> ELSE SubSeq(text, 1, n - 1)]
    ELSE [ret |-> Len(text), str |-> text]

\* std::snprintf(out, n, fmt, ...) for the rendered text: the return value is
\* the full rendered length; at most n-1 characters and a terminator are stored
Snprintf(text, n) ==
    [ret |-> Len(text),
     str |-> IF n = 0 THEN <<>> ELSE SubSeq(text, 1, Min(Len(text), n - 1))]

----------------------------------------------------------------------------
(* Identifiers and value types *)

ID_TemperatureSetpoint == 0
ID_DeviceVoltage == 1

Types == {"TemperatureSetpoint", "DeviceVoltage"}

\* sizeof(T): TemperatureSetpoint wraps a float, DeviceVoltage an int16_t
SizeOf(T) == IF T = "TemperatureSetpoint" THEN 4 ELSE 2

\* object bytes of a value of type T, and the value a T* reads from a buffer
ObjectBytes(T, v) == IF T = "TemperatureSetpoint" THEN FloatBytes(v) ELSE Int16Bytes(v)
BytesObject(T, b) == IF T = "TemperatureSetpoint" THEN BytesFloat(b) ELSE BytesInt16(b)

\* std::memcpy(dst, src, n) on byte sequences (n <= Len(src); bytes past the
\* end of dst are not modelled)
Memcpy(dst, src, n) == [i \in 1..Len(dst) |-> IF i <= n THEN src[i] ELSE dst[i]]

----------------------------------------------------------------------------
(* Inputs *)

PropertyTraits_TemperatureSetpoint_default_v == F_23
PropertyTraits_DeviceVoltage_default_v == 1013
ParameterTraits_TemperatureSetpoint_default_v == F_37_5
ParameterTraits_HighTemperatureAlarm_default_v == F_80

\* floats handed to the typed set: the literals of main, the ends of the
\* accepted domain, the neighbours of the upper end, a value halfway between
\* two hundredths, a small negative value, the negative zero and a NaN
FloatSamples ==
    { F_23, F_37_5, F_m1234, F_m50, F_150,
      Float(1, 0, 0),              \* -0.0
      Float(0, 134, 1441793),      \* the float after 150
      Float(0, 134, 1441726),      \* 149.999
      Float(0, 132, 1343488),      \* 37.125
      Float(1, 117, 201327),       \* -0.001
      Float(0, 255, 4194304) }     \* NaN

Int16Samples == { PropertyTraits_DeviceVoltage_default_v, 1015, 0, -1, 19999, 20000 }

Values(T) == IF T = "TemperatureSetpoint" THEN FloatSamples ELSE Int16Samples

\* the first n bytes of b, zero-filled when b is shorter
Resize(b, n) == [i \in 1..n |-> IF i <= Len(b) THEN b[i] ELSE 0]

\* byte spans handed to setRaw: a valid temperature and an all-ones pattern
\* cut or zero-extended to every length up to MaxRawSize, and a valid voltage
RawData ==
    { Resize(b, n) : b \in { FloatBytes(F_37_5), <<255, 255, 255, 255>> },
                     n \in 0..MaxRawSize }
    \cup { Int16Bytes(1015) }

\* integers written out as decimal text, inside and outside int16_t
LongSamples == (Int16Samples \ {PropertyTraits_DeviceVoltage_default_v})
                   \cup { 32768, 70000, -65535 }

\* texts handed to setFromText: no text, texts without a number, the texts
\* of main, a number followed by a letter, the integers of LongSamples and
\* the rendering of every valid sample temperature
StoreTexts ==
    { NullPtr, <<>>, <<"z">>, <<"3", "7", ".", "5">>, <<"1", "0", "1", "5", "z">>,
      <<"-", "5", "0", ".", "0", "1">> }
    \cup { FormatD(n) : n \in LongSamples }
    \cup { FormatF2(v) : v \in { x \in FloatSamples :
                                   FloatGE(x, F_m50) /\ FloatLE(x, F_150) } }

\* the characters of the generated texts, and every text of at most n of them
Alphabet == {"0", "1", "9", ".", "-", " ", "z"}

RECURSIVE TextsUpTo(_)
TextsUpTo(n) == IF n = 0 THEN {<<>>}
                ELSE LET T == TextsUpTo(n - 1)
                     IN  T \cup { Append(t, c) : t \in T, c \in Alphabet }

AllTexts == TextsUpTo(MaxLen) \cup {NullPtr}

Caps == 0..MaxCap

\* strtof / strtol tabulated over the texts of the model
StrtofOf == [t \in (StoreTexts \cup AllTexts) \ {NullPtr} |-> Strtof(t)]
StrtolOf == [t \in (StoreTexts \cup AllTexts) \ {NullPtr} |-> Strtol(t)]

----------------------------------------------------------------------------
(* PropertyTraits<T>: the descriptors behind the handler table.  A parse     *)
(* takes the caller's object `o` and returns the result with the object as  *)
(* the call leaves it.                                                      *)

PropertyTraits_TemperatureSetpoint_validate(t) ==
    FloatGE(t, F_m50) /\ FloatLE(t, F_150)

\* the parse of PropertyTraits<TemperatureSetpoint> ending in `return validate(out)`
PropertyTraits_TemperatureSetpoint_parse_Validating(in, o) ==
    IF in = NullPtr THEN [ok |-> FALSE, o |-> o]
    ELSE LET r == StrtofOf[in]
         IN  IF r.end = 0 THEN [ok |-> FALSE, o |-> o]
             ELSE [ok |-> PropertyTraits_TemperatureSetpoint_validate(r.v), o |-> r.v]

PropertyTraits_TemperatureSetpoint_parse(in, o) ==
    IF in = NullPtr THEN [ok |-> FALSE, o |-> o]
    ELSE LET r == StrtofOf[in]
         IN  IF r.end = 0 THEN [ok |-> FALSE, o |-> o]
             ELSE [ok |-> TRUE, o |-> r.v]

PropertyTraits_TemperatureSetpoint_serialize(v, n) == Snprintf(FormatF2(v), n)

PropertyTraits_DeviceVoltage_validate(p) == p > 0 /\ p < 20000

PropertyTraits_DeviceVoltage_parse(in, o) ==
    IF in = NullPtr THEN [ok |-> FALSE, o |-> o]
    ELSE LET r == StrtolOf[in]
         IN  IF r.end = 0 THEN [ok |-> FALSE, o |-> o]
             ELSE [ok |-> TRUE, o |-> CastInt16(r.v)]

PropertyTraits_DeviceVoltage_serialize(v, n) == Snprintf(FormatD(v), n)

----------------------------------------------------------------------------
(* ParameterTraits<T>: the second family of descriptors *)

ParameterTraits_TemperatureSetpoint_validate(x) ==
    FloatGE(x, F_0) /\ FloatLE(x, F_100)

ParameterTraits_TemperatureSetpoint_parse(in, o) ==
    IF in = NullPtr THEN [ok |-> FALSE, o |-> o]
    ELSE LET r == StrtofOf[in]
         IN  IF r.end = 0 THEN [ok |-> FALSE, o |-> o]
             ELSE [ok |-> ParameterTraits_TemperatureSetpoint_validate(r.v), o |-> r.v]

ParameterTraits_HighTemperatureAlarm_validate(x) ==
    FloatGE(x, F_0) /\ FloatLE(x, F_150)

ParameterTraits_HighTemperatureAlarm_parse(in, o) ==
    IF in = NullPtr THEN [ok |-> FALSE, o |-> o]
    ELSE LET r == StrtofOf[in]
         IN  IF r.end = 0 THEN [ok |-> FALSE, o |-> o]
             ELSE [ok |-> ParameterTraits_HighTemperatureAlarm_validate(r.v), o |-> r.v]

----------------------------------------------------------------------------
(* The handler table *)

\* makeHandler<T>(): the entry's data; its three lambdas are HandlerParse,
\* HandlerSerialize and HandlerValidate below, which dispatch on the entry's
\* type.  Both descriptors define parse and serialize, so the lambdas' tests
\* of PropertyTraits<T>::parse / ::serialize take the first branch, and the
\* entry's parse and serialize pointers are never null.
makeHandler(T) ==
    [name    |-> T,
     key     |-> IF T = "TemperatureSetpoint" THEN "temperature" ELSE "pressure",
     size    |-> SizeOf(T),
     storage |-> "Volatile",
     type    |-> T]

kPropertyTable == << makeHandler("TemperatureSetpoint"), makeHandler("DeviceVoltage") >>

kPropertyCount == Len(kPropertyTable)

PropertyIDs == 0..(kPropertyCount - 1)

RECURSIVE MaxSizeUpTo(_)
MaxSizeUpTo(i) == IF i = 0 THEN 0
                  ELSE LET m == MaxSizeUpTo(i - 1)
                       IN  IF kPropertyTable[i].size > m THEN kPropertyTable[i].size ELSE m

compute_max_size == MaxSizeUpTo(kPropertyCount)

kMaxPropertySize == compute_max_size

handler(id) == kPropertyTable[id + 1]

\* the value type bound to an identifier
BoundType(id) == handler(id).type

\* sizeof(buf) of main: a destination that holds every rendering
BufSize == 64

\* h.parse(in, tmp): the parse lambda writes through static_cast<T*>(tmp)
HandlerParse(h, in, tmp) ==
    LET r == IF h.type = "TemperatureSetpoint"
             THEN PropertyTraits_TemperatureSetpoint_parse(in, BytesObject(h.type, tmp))
             ELSE PropertyTraits_DeviceVoltage_parse(in, BytesObject(h.type, tmp))
    IN  [ok |-> r.ok, buf |-> Memcpy(tmp, ObjectBytes(h.type, r.o), h.size)]

\* h.serialize(buf, out, n)
HandlerSerialize(h, buf, n) ==
    IF h.type = "TemperatureSetpoint"
    THEN PropertyTraits_TemperatureSetpoint_serialize(BytesObject(h.type, buf), n)
    ELSE PropertyTraits_DeviceVoltage_serialize(BytesObject(h.type, buf), n)

\* h.validate(buf)
HandlerValidate(h, buf) ==
    IF h.type = "TemperatureSetpoint"
    THEN PropertyTraits_TemperatureSetpoint_validate(BytesObject(h.type, buf))
    ELSE PropertyTraits_DeviceVoltage_validate(BytesObject(h.type, buf))

----------------------------------------------------------------------------
(* PropertyStore.  Each operation is an operator on the slot array S that    *)
(* returns the call's result together with what it leaves behind.  The      *)
(* `!h.parse` and `!h.serialize` exits are absent: no entry of the table    *)
(* has a null pointer.                                                      *)

ZeroBuf == [i \in 1..kMaxPropertySize |-> 0]

EmptySlot == [buf |-> ZeroBuf, sz |-> 0, has_value |-> FALSE]

\* setRaw copying into the slot before it validates
setRaw_CopyThenValidate(S, id, data, sz) ==
    LET h == handler(id)
        c == [S EXCEPT ![id].buf = Memcpy(@, data, sz)]
    IN  IF sz # h.size THEN [slots |-> S, ret |-> FALSE]
        ELSE IF ~HandlerValidate(h, c[id].buf) THEN [slots |-> c, ret |-> FALSE]
        ELSE [slots |-> [c EXCEPT ![id].sz = sz, ![id].has_value = TRUE], ret |-> TRUE]

\* setRaw marking the slot empty when validation fails
setRaw_ClearsOnReject(S, id, data, sz) ==
    LET h   == handler(id)
        tmp == Memcpy(ZeroBuf, data, sz)
    IN  IF sz # h.size THEN [slots |-> S, ret |-> FALSE]
        ELSE IF ~HandlerValidate(h, tmp)
             THEN [slots |-> [S EXCEPT ![id].has_value = FALSE], ret |-> FALSE]
        ELSE [slots |-> [S EXCEPT ![id] = [buf       |-> Memcpy(@.buf, data, sz),
                                           sz        |-> sz,
                                           has_value |-> TRUE]],
              ret   |-> TRUE]

\* setRaw refusing only the lengths above the declared size
setRaw_SizeGreaterCheck(S, id, data, sz) ==
    LET h   == handler(id)
        tmp == Memcpy(ZeroBuf, data, sz)
    IN  IF sz > h.size THEN [slots |-> S, ret |-> FALSE]
        ELSE IF ~HandlerValidate(h, tmp) THEN [slots |-> S, ret |-> FALSE]
        ELSE [slots |-> [S EXCEPT ![id] = [buf       |-> Memcpy(@.buf, data, sz),
                                           sz        |-> sz,
                                           has_value |-> TRUE]],
              ret   |-> TRUE]

setRaw(S, id, data, sz) ==
    LET h   == handler(id)
        tmp == Memcpy(ZeroBuf, data, sz)
    IN  IF sz # h.size THEN [slots |-> S, ret |-> FALSE]
        ELSE IF ~HandlerValidate(h, tmp) THEN [slots |-> S, ret |-> FALSE]
        ELSE [slots |-> [S EXCEPT ![id] = [buf       |-> Memcpy(@.buf, data, sz),
                                           sz        |-> sz,
                                           has_value |-> TRUE]],
              ret   |-> TRUE]

\* getRaw copying one byte too few
getRaw_ShortCopy(S, id, sz) ==
    LET s == S[id]
    IN  IF ~s.has_value \/ s.sz # sz THEN [ret |-> FALSE, bytes |-> <<>>]
        ELSE [ret |-> TRUE, bytes |-> Memcpy([i \in 1..sz |-> 0], s.buf, sz - 1)]

\* bytes: what the call stored through `out` (nothing on failure)
getRaw(S, id, sz) ==
    LET s == S[id]
    IN  IF ~s.has_value \/ s.sz # sz THEN [ret |-> FALSE, bytes |-> <<>>]
        ELSE [ret |-> TRUE, bytes |-> SubSeq(s.buf, 1, sz)]

set(S, id, T, v) == setRaw(S, id, ObjectBytes(T, v), SizeOf(T))

get(S, id, T) == getRaw(S, id, SizeOf(T))

\* setFromText committing whatever parses, without the validate step
setFromText_NoValidate(S, id, text) ==
    LET h == handler(id)
        p == HandlerParse(h, text, ZeroBuf)
    IN  IF ~p.ok THEN [slots |-> S, ret |-> FALSE]
        ELSE [slots |-> [S EXCEPT ![id] = [buf       |-> Memcpy(@.buf, p.buf, h.size),
                                           sz        |-> h.size,
                                           has_value |-> TRUE]],
              ret   |-> TRUE]

setFromText(S, id, text) ==
    LET h == handler(id)
        p == HandlerParse(h, text, ZeroBuf)
    IN  IF ~p.ok THEN [slots |-> S, ret |-> FALSE]
        ELSE IF ~HandlerValidate(h, p.buf) THEN [slots |-> S, ret |-> FALSE]
        ELSE [slots |-> [S EXCEPT ![id] = [buf       |-> Memcpy(@.buf, p.buf, h.size),
                                           sz        |-> h.size,
                                           has_value |-> TRUE]],
              ret   |-> TRUE]

\* getAsText without the presence test
getAsText_NoPresenceCheck(S, id, n) == HandlerSerialize(handler(id), S[id].buf, n)

\* str: the C string the call left in `out` (nothing on the -1 path)
getAsText(S, id, n) ==
    LET h == handler(id)
        s == S[id]
    IN  IF ~s.has_value THEN [ret |-> -1, str |-> <<>>]
        ELSE HandlerSerialize(h, s.buf, n)

----------------------------------------------------------------------------
(* The store as a state machine: one action per PropertyStore operation.   *)
(* call records the last call, ret its return value, out what it stored    *)
(* through its output pointer, written the identifiers a set has accepted. *)

Call(op, id, T, data, text, n) ==
    [op |-> op, id |-> id, type |-> T, data |-> data, text |-> text, n |-> n, desc |-> ""]

NoOut == [bytes |-> <<>>, str |-> <<>>]

Init ==
    /\ slots = [id \in PropertyIDs |-> EmptySlot]
    /\ call = Call("construct", 0, "", <<>>, <<>>, 0)
    /\ ret = FALSE
    /\ out = NoOut
    /\ written = {}

Set(id, T, v) ==
    LET r == set(slots, id, T, v)
    IN  /\ slots' = r.slots
        /\ ret' = r.ret
        /\ call' = Call("set", id, T, ObjectBytes(T, v), <<>>, SizeOf(T))
        /\ out' = NoOut
        /\ written' = IF r.ret THEN written \cup {id} ELSE written

SetRaw(id, data) ==
    LET r == setRaw(slots, id, data, Len(data))
    IN  /\ slots' = r.slots
        /\ ret' = r.ret
        /\ call' = Call("setRaw", id, "", data, <<>>, Len(data))
        /\ out' = NoOut
        /\ written' = IF r.ret THEN written \cup {id} ELSE written

SetFromText(id, text) ==
    LET r == setFromText(slots, id, text)
    IN  /\ slots' = r.slots
        /\ ret' = r.ret
        /\ call' = Call("setFromText", id, "", <<>>, text, 0)
        /\ out' = NoOut
        /\ written' = IF r.ret THEN written \cup {id} ELSE written

Get(id, T) ==
    LET r == get(slots, id, T)
    IN  /\ ret' = r.ret
        /\ call' = Call("get", id, T, <<>>, <<>>, SizeOf(T))
        /\ out' = [bytes |-> r.bytes, str |-> <<>>]
        /\ UNCHANGED <<slots, written>>

GetRaw(id, sz) ==
    LET r == getRaw(slots, id, sz)
    IN  /\ ret' = r.ret
        /\ call' = Call("getRaw", id, "", <<>>, <<>>, sz)
        /\ out' = [bytes |-> r.bytes, str |-> <<>>]
        /\ UNCHANGED <<slots, written>>

GetAsText(id, n) ==
    LET r == getAsText(slots, id, n)
    IN  /\ ret' = r.ret
        /\ call' = Call("getAsText", id, "", <<>>, <<>>, n)
        /\ out' = [bytes |-> <<>>, str |-> r.str]
        /\ UNCHANGED <<slots, written>>

Next ==
    \/ \E id \in PropertyIDs, T \in Types : \E v \in Values(T) : Set(id, T, v)
    \/ \E id \in PropertyIDs, data \in RawData : SetRaw(id, data)
    \/ \E id \in PropertyIDs, text \in StoreTexts : SetFromText(id, text)
    \/ \E id \in PropertyIDs, T \in Types : Get(id, T)
    \/ \E id \in PropertyIDs, sz \in 0..MaxRawSize : GetRaw(id, sz)
    \/ \E id \in PropertyIDs, n \in Caps : GetAsText(id, n)

Spec == Init /\ [][Next]_vars

----------------------------------------------------------------------------
(* The descriptors on their own: a parse call on a text, with the caller's  *)
(* object holding the descriptor's default_v as in the demos.  The text and *)
(* the descriptor are drawn initially; the one step of a behaviour is the   *)
(* call.                                                                    *)

Descriptors == { "PropertyTraits<TemperatureSetpoint>", "PropertyTraits<DeviceVoltage>",
                 "ParameterTraits<TemperatureSetpoint>", "ParameterTraits<HighTemperatureAlarm>" }

InitTraits ==
    /\ slots = [id \in PropertyIDs |-> EmptySlot]
    /\ \E d \in Descriptors, t \in AllTexts :
           call = [Call("pending", 0, "", <<>>, t, 0) EXCEPT !.desc = d]
    /\ ret = FALSE
    /\ out = NoOut
    /\ written = {}

\* the call has returned r.ok and left r.o in the caller's object
Parsed(r, T) ==
    /\ call' = [call EXCEPT !.op = "parse"]
    /\ ret' = r.ok
    /\ out' = [bytes |-> ObjectBytes(T, r.o), str |-> <<>>]
    /\ UNCHANGED <<slots, written>>

ParsePropertyTemperature ==
    /\ call.op = "pending" /\ call.desc = "PropertyTraits<TemperatureSetpoint>"
    /\ Parsed(PropertyTraits_TemperatureSetpoint_parse(
                  call.text, PropertyTraits_TemperatureSetpoint_default_v),
              "TemperatureSetpoint")

ParsePropertyVoltage ==
    /\ call.op = "pending" /\ call.desc = "PropertyTraits<DeviceVoltage>"
    /\ Parsed(PropertyTraits_DeviceVoltage_parse(
                  call.text, PropertyTraits_DeviceVoltage_default_v),
              "DeviceVoltage")

ParseParameterTemperature ==
    /\ call.op = "pending" /\ call.desc = "ParameterTraits<TemperatureSetpoint>"
    /\ Parsed(ParameterTraits_TemperatureSetpoint_parse(
                  call.text, ParameterTraits_TemperatureSetpoint_default_v),
              "TemperatureSetpoint")

ParseParameterAlarm ==
    /\ call.op = "pending" /\ call.desc = "ParameterTraits<HighTemperatureAlarm>"
    /\ Parsed(ParameterTraits_HighTemperatureAlarm_parse(
                  call.text, ParameterTraits_HighTemperatureAlarm_default_v),
              "TemperatureSetpoint")

NextTraits ==
    \/ ParsePropertyTemperature
    \/ ParsePropertyVoltage
    \/ ParseParameterTemperature
    \/ ParseParameterAlarm

SpecTraits == InitTraits /\ [][NextTraits]_vars

----------------------------------------------------------------------------
(* Properties *)

SetOps == {"set", "setRaw", "setFromText"}

\* the text a slot's bytes render to, whatever the destination
Rendered(S, id) == HandlerSerialize(handler(id), S[id].buf, BufSize).str

\* serialize(v) into a destination that holds it
Serialized(T, v) ==
    IF T = "TemperatureSetpoint"
    THEN PropertyTraits_TemperatureSetpoint_serialize(v, BufSize).str
    ELSE PropertyTraits_DeviceVoltage_serialize(v, BufSize).str

\* validate of the descriptor bound to T
Valid(T, v) ==
    IF T = "TemperatureSetpoint"
    THEN PropertyTraits_TemperatureSetpoint_validate(v)
    ELSE PropertyTraits_DeviceVoltage_validate(v)

\* text t starts, after spaces and an optional sign, with a number: a digit,
\* or for a floating-point target also a point followed by a digit
NumericPrefix(t, floating) ==
    /\ t # NullPtr
    /\ LET i == SkipSpace(t, 1)
           j == IF i <= Len(t) /\ t[i] \in {"+", "-"} THEN i + 1 ELSE i
       IN  /\ j <= Len(t)
           /\ \/ IsDigit(t[j])
              \/ floating /\ t[j] = "." /\ j + 1 <= Len(t) /\ IsDigit(t[j + 1])

\* C1: a set, setRaw or setFromText call that returns false leaves the slot
\* of its identifier (bytes, sz, has_value) exactly as it was before the call
C1_RejectionLeavesSlot ==
    [][(call'.op \in SetOps /\ ret' = FALSE) => slots'[call'.id] = slots[call'.id]]_vars

\* C1 witness: with "37.50" in the temperature slot, set(Temperature, {-1234.0})
\* has failed and getAsText still yields "37.50"
C1_Witness ==
    /\ call.op = "set" /\ call.id = ID_TemperatureSetpoint
    /\ call.data = FloatBytes(F_m1234)
    /\ ret = FALSE
    /\ getAsText(slots, ID_TemperatureSetpoint, BufSize).str = <<"3", "7", ".", "5", "0">>

\* C2: set(id, v) with v a valid value of the identifier's bound type returns
\* true, and a get(id, out) right after it returns true with out equal to v
C2_TypedRoundTrip ==
    (/\ call.op = "set"
     /\ call.type = BoundType(call.id)
     /\ Valid(call.type, BytesObject(call.type, call.data)))
    => /\ ret = TRUE
       /\ get(slots, call.id, call.type).ret
       /\ BytesObject(call.type, get(slots, call.id, call.type).bytes)
              = BytesObject(call.type, call.data)

\* C2 witness: set(Temperature, {149.999}) over a slot that held another value
C2_Witness ==
    /\ call.op = "set" /\ call.id = ID_TemperatureSetpoint
    /\ call.data = FloatBytes(Float(0, 134, 1441726))
    /\ ret = TRUE
    /\ get(slots, call.id, call.type).bytes = call.data
    /\ slots[ID_DeviceVoltage].has_value

\* C3: while no set, setRaw or setFromText on id has returned true, get and
\* getRaw on id return false and getAsText on id returns a negative value
C3_ReadBeforeWriteFails ==
    /\ (call.op \in {"get", "getRaw"} /\ call.id \notin written) => ret = FALSE
    /\ (call.op = "getAsText" /\ call.id \notin written) => ret < 0

\* C3 witness: getAsText on the never-written temperature after a successful
\* set on the voltage
C3_Witness ==
    /\ call.op = "getAsText" /\ call.id = ID_TemperatureSetpoint
    /\ written = {ID_DeviceVoltage}
    /\ ret < 0

\* C4 (as stated): setFromText(DeviceVoltage, text of the decimal integer n)
\* returns true only if 0 < n < 20000
C4_OutOfDomainTextRejected ==
    \A n \in LongSamples :
        (/\ call.op = "setFromText" /\ call.id = ID_DeviceVoltage
         /\ call.text = FormatD(n)
         /\ ret = TRUE)
        => (0 < n /\ n < 20000)

C6_PresenceMonotonic ==
    \A id \in written :
        slots[id].has_value /\ get(slots, id, BoundType(id)).ret

\* C6 witness: both identifiers written, then a rejected set on one of them
C6_Witness ==
    /\ written = PropertyIDs
    /\ call.op \in SetOps /\ call.id = ID_DeviceVoltage /\ ret = FALSE
    /\ slots[ID_DeviceVoltage].has_value

\* C7: setFromText(id, serialize(v)) with v a valid value of the bound type
\* returns true, and getAsText(id) into a destination that holds the text
\* yields serialize(v)
C7_TextRoundTrip ==
    \A id \in PropertyIDs : \A v \in Values(BoundType(id)) :
        (/\ Valid(BoundType(id), v)
         /\ call.op = "setFromText" /\ call.id = id
         /\ call.text = Serialized(BoundType(id), v))
        => /\ ret = TRUE
           /\ getAsText(slots, id, Len(call.text) + 1)
                  = [ret |-> Len(call.text), str |-> call.text]

\* C7 witness: the temperature 37.125 renders as "37.12", which is stored and
\* read back as "37.12"
C7_Witness ==
    /\ call.op = "setFromText" /\ call.id = ID_TemperatureSetpoint
    /\ call.text = Serialized("TemperatureSetpoint", Float(0, 132, 1343488))
    /\ call.text = <<"3", "7", ".", "1", "2">>
    /\ ret = TRUE
    /\ getAsText(slots, call.id, BufSize).str = call.text

\* C8: setRaw, and so set<T>, with a length other than the entry's declared
\* size returns false and leaves the slots unchanged, whatever the bytes
C8_SizeMismatch ==
    [][(call'.op \in {"set", "setRaw"} /\ call'.n # handler(call'.id).size)
       => (ret' = FALSE /\ slots' = slots)]_vars

\* C8 witness: the two bytes of the voltage 1015, which read as a temperature
\* would pass validate, handed to setRaw(Temperature) and refused
C8_Witness ==
    /\ call.op = "setRaw" /\ call.id = ID_TemperatureSetpoint
    /\ call.data = Int16Bytes(1015)
    /\ HandlerValidate(handler(call.id), Memcpy(ZeroBuf, call.data, call.n))
    /\ ret = FALSE
    /\ ~slots[call.id].has_value

\* C9 (as stated): for each of the four descriptors, parse fails exactly when
\* the text is null or has no numeric prefix
C9_ParseIgnoresDomain ==
    call.op = "parse"
    => ret = NumericPrefix(call.text, call.desc # "PropertyTraits<DeviceVoltage>")

\* C9 (amended): that holds of PropertyTraits<TemperatureSetpoint> and
\* PropertyTraits<DeviceVoltage>; the parse of ParameterTraits<TemperatureSetpoint>
\* and ParameterTraits<HighTemperatureAlarm> succeeds exactly when the text has
\* a numeric prefix and the value it stored satisfies the descriptor's validate
C9_ParseByFamily ==
    call.op = "parse"
    => LET pre == NumericPrefix(call.text, call.desc # "PropertyTraits<DeviceVoltage>")
           o   == BytesFloat(out.bytes)
       IN  CASE call.desc = "ParameterTraits<TemperatureSetpoint>"
                  -> ret = (pre /\ ParameterTraits_TemperatureSetpoint_validate(o))
             [] call.desc = "ParameterTraits<HighTemperatureAlarm>"
                  -> ret = (pre /\ ParameterTraits_HighTemperatureAlarm_validate(o))
             [] OTHER -> ret = pre

\* C9 witness: PropertyTraits<TemperatureSetpoint>::parse has accepted "999",
\* which its validate refuses
C9_Witness ==
    /\ call.op = "parse" /\ call.desc = "PropertyTraits<TemperatureSetpoint>"
    /\ call.text = <<"9", "9", "9">>
    /\ ret = TRUE
    /\ ~PropertyTraits_TemperatureSetpoint_validate(BytesFloat(out.bytes))

\* C10: every slot is either empty with has_value = false and sz = 0, or has
\* has_value = true, sz equal to its entry's declared size (at most
\* kMaxPropertySize) and bytes that satisfy its identifier's validate
C10_StoredValueInvariant ==
    \A id \in PropertyIDs :
        LET s == slots[id]
            h == handler(id)
        IN  \/ ~s.has_value /\ s.sz = 0
            \/ /\ s.has_value
               /\ s.sz = h.size
               /\ s.sz <= kMaxPropertySize
               /\ HandlerValidate(h, s.buf)

\* C10 witness: both slots hold a value and a text set has just been refused
C10_Witness ==
    /\ \A id \in PropertyIDs : slots[id].has_value
    /\ call.op = "setFromText" /\ ret = FALSE
    /\ call.text = <<"2", "0", "0", "0", "0">>

====
